---- MODULE Spec2Model ----
(***************************************************************************)
(* A model of pixelprompt (src/src/pixelprompt/core.py): the token cost    *)
(* model, the text normalizer, word wrap, pagination, the page renderer    *)
(* and the render orchestrator of the PixelPrompt engine.                  *)
(*                                                                         *)
(* Texts are sequences of one-character strings.  Python floats are        *)
(* modelled as IEEE-754 binary64 values: a 53-bit significand and a binary *)
(* exponent, with round-to-nearest-even after every operation.             *)
(***************************************************************************)
EXTENDS Integers, Sequences, FiniteSets, TLC

VARIABLES
    pc,                   \* the operation that produced the current state
    est_width,            \* estimate_image_tokens: argument width
    est_height,           \* estimate_image_tokens: argument height
    est_tokens,           \* estimate_image_tokens: returned value
    config,               \* PixelPrompt.config: the RenderConfig
    status,               \* "unbound", "ready" or the error __init__ raised
    font_size,            \* the size PixelPrompt._font was loaded at
    char_width,           \* PixelPrompt._char_width
    char_height,          \* PixelPrompt._char_height
    line_height,          \* PixelPrompt._line_height
    max_chars_per_line,   \* PixelPrompt._max_chars_per_line
    max_lines_per_image,  \* PixelPrompt._max_lines_per_image
    text,                 \* the text argument of the call
    error,                \* the error the call raised, or NoError
    compacted,            \* render: the text after compaction / minification
    wrapped_lines,        \* the physical lines (_wrap_text's result)
    pages,                \* the pages (_paginate's result)
    images,               \* the returned images: [width, height, tokens]
    minify_arg,           \* minify_text: the argument of the latest call
    cleaned_lines,        \* minify_text: the list of processed lines
    minified,             \* minify_text: the returned text
    minify_calls,         \* minify_text: the number of calls made so far
    opt_prompt,           \* optimize_prompt: argument prompt
    opt_style,            \* optimize_prompt: argument style
    optimized,            \* optimize_prompt: returned value
    model,                \* compare: argument model
    report,               \* compare: the returned report
    font_available,       \* the candidate font paths that can be opened
    font_index,           \* _find_font: the position in font_paths
    font,                 \* _find_font: "trying", the path opened or "default"
    calls,                \* the render calls in progress, one per caller
    split_word,           \* _wrap_text: the word being hard-split
    split_chunks,         \* _wrap_text: the chunks the hard split emitted
    page_start            \* _paginate: the loop index i

tokenVars == <<est_width, est_height, est_tokens>>
engineVars == <<config, status, font_size, char_width, char_height,
                line_height, max_chars_per_line, max_lines_per_image>>
callVars == <<text, error, compacted, wrapped_lines, pages, images>>
minifyVars == <<minify_arg, cleaned_lines, minified, minify_calls>>
promptVars == <<opt_prompt, opt_style, optimized>>
compareVars == <<model, report>>
fontVars == <<font_available, font_index, font>>
loopVars == <<split_word, split_chunks, page_start>>
stepVars == <<fontVars, calls, loopVars>>
vars == <<pc, tokenVars, engineVars, callVars, minifyVars, promptVars,
          compareVars, stepVars>>

Max(a, b) == IF a >= b THEN a ELSE b
Min(a, b) == IF a <= b THEN a ELSE b

(***************************************************************************)
(* Program constants (core.py:24-25).                                      *)
(***************************************************************************)
TOKENS_PER_PIXEL_DIVISOR == 750
MAX_VISION_DIMENSION == 1568

(***************************************************************************)
(* IEEE-754 binary64 arithmetic on positive values.                        *)
(* The 53-bit significand is kept as four limbs <<l1, l2, l3, l4>>, l1 of  *)
(* TopBits bits (its leading bit set) and the others of LimbBits bits, so  *)
(* that every intermediate product stays below 2^31.  A float is           *)
(* [mant |-> <<l1, l2, l3, l4>>, exp |-> e], standing for the value        *)
(* (l1 * 2^42 + l2 * 2^28 + l3 * 2^14 + l4) / 2^e.                         *)
(***************************************************************************)
MantBits == 53
LimbBits == 14
LimbBase == 16384
TopBits == 11

\* the number of binary digits of a natural x < 2^30
BitLen(x) == CHOOSE n \in 0..30 : x < 2^n /\ (n = 0 \/ x >= 2^(n - 1))

\* the significand plus one unit in the last place, renormalised when the
\* carry runs out of the top limb
RoundUp(l, e) ==
    IF l[4] + 1 < LimbBase THEN [mant |-> <<l[1], l[2], l[3], l[4] + 1>>, exp |-> e]
    ELSE IF l[3] + 1 < LimbBase THEN [mant |-> <<l[1], l[2], l[3] + 1, 0>>, exp |-> e]
    ELSE IF l[2] + 1 < LimbBase THEN [mant |-> <<l[1], l[2] + 1, 0, 0>>, exp |-> e]
    ELSE IF l[1] + 1 < 2^TopBits THEN [mant |-> <<l[1] + 1, 0, 0, 0>>, exp |-> e]
    ELSE [mant |-> <<2^(TopBits - 1), 0, 0, 0>>, exp |-> e - 1]

\* the number of zero bits that lead the binary expansion of a / b (0 < a < b)
LeadingZeros(a, b) == CHOOSE z \in 0..30 : a * 2^(z + 1) >= b /\ a * 2^z < b

\* a / b as a float, for integers 0 < a < b < 2^17: Python's a / b.
\* Long division, one limb at a time; the remainder decides the rounding
\* (to nearest, ties to even).
FloatDiv(a, b) ==
    LET z  == LeadingZeros(a, b)
        r0 == a * 2^z
        l1 == (r0 * 2^TopBits) \div b
        r1 == (r0 * 2^TopBits) % b
        l2 == (r1 * LimbBase) \div b
        r2 == (r1 * LimbBase) % b
        l3 == (r2 * LimbBase) \div b
        r3 == (r2 * LimbBase) % b
        l4 == (r3 * LimbBase) \div b
        r4 == (r3 * LimbBase) % b
    IN  IF 2 * r4 > b \/ (2 * r4 = b /\ l4 % 2 = 1)
        THEN RoundUp(<<l1, l2, l3, l4>>, z + MantBits)
        ELSE [mant |-> <<l1, l2, l3, l4>>, exp |-> z + MantBits]

\* w * f as a float, for an integer 1 <= w < 2^13: Python's int * float.
\* The exact product t1 * 2^42 + (t2 % B) * 2^28 + (t3 % B) * 2^14 + t4 % B
\* is shifted right by the d bits it has beyond 53 and rounded on the bits
\* shifted out (to nearest, ties to even).
FloatMulInt(w, f) ==
    LET t4   == w * f.mant[4]
        t3   == w * f.mant[3] + (t4 \div LimbBase)
        t2   == w * f.mant[2] + (t3 \div LimbBase)
        t1   == w * f.mant[1] + (t2 \div LimbBase)
        d    == BitLen(t1) - TopBits
        p    == 2^d
        l1   == t1 \div p
        l2   == ((t1 % p) * LimbBase + (t2 % LimbBase)) \div p
        l3   == ((t2 % p) * LimbBase + (t3 % LimbBase)) \div p
        l4   == ((t3 % p) * LimbBase + (t4 % LimbBase)) \div p
        out  == t4 % p
    IN  IF d > 0 /\ (2 * out > p \/ (2 * out = p /\ l4 % 2 = 1))
        THEN RoundUp(<<l1, l2, l3, l4>>, f.exp - d)
        ELSE [mant |-> <<l1, l2, l3, l4>>, exp |-> f.exp - d]

\* int(f): truncation toward zero, for a float below 2^25
FloatToInt(f) ==
    IF f.exp >= MantBits THEN 0
    ELSE IF f.exp >= MantBits - TopBits
         THEN f.mant[1] \div 2^(f.exp - (MantBits - TopBits))
    ELSE (f.mant[1] * LimbBase + f.mant[2])
             \div 2^(f.exp - (MantBits - TopBits - LimbBits))

(***************************************************************************)
(* estimate_image_tokens (core.py:160-180).                                *)
(* With scale = 1.0 the products width * scale and height * scale are      *)
(* exact.  (scaled_w * scaled_h) / 750 is a correctly rounded quotient of  *)
(* an integer below 2^53, whose truncation is the integer quotient.        *)
(***************************************************************************)
\* int(d * scale), where scale is 1.0 unless the image is scaled down
ScaledDim(d, scaled_down, scale) ==
    IF scaled_down THEN FloatToInt(FloatMulInt(d, scale)) ELSE d

\* mutant: the two constants change places, the threshold is 750 and the
\* divisor 1568
estimate_image_tokens_swapped(width, height) ==
    LET scaled_down == Max(width, height) > TOKENS_PER_PIXEL_DIVISOR
        scale       == FloatDiv(TOKENS_PER_PIXEL_DIVISOR, Max(width, height))
        scaled_w    == ScaledDim(width, scaled_down, scale)
        scaled_h    == ScaledDim(height, scaled_down, scale)
    IN  Max(1, (scaled_w * scaled_h) \div MAX_VISION_DIMENSION)

estimate_image_tokens(width, height) ==
    LET scaled_down == Max(width, height) > MAX_VISION_DIMENSION
        scale       == FloatDiv(MAX_VISION_DIMENSION, Max(width, height))
        scaled_w    == ScaledDim(width, scaled_down, scale)
        scaled_h    == ScaledDim(height, scaled_down, scale)
    IN  Max(1, (scaled_w * scaled_h) \div TOKENS_PER_PIXEL_DIVISOR)

(***************************************************************************)
(* Python strings: a string is a sequence of one-character strings.        *)
(* Whitespace is what str.strip() and the regex class \s remove; of it the *)
(* model's alphabets hold the space, the tab and the line feed.            *)
(***************************************************************************)
Whitespace == {" ", "\t", "\n"}
IsSpace(c) == c \in Whitespace

\* str.lstrip()
LStrip(s) ==
    IF \A i \in 1..Len(s) : IsSpace(s[i]) THEN <<>>
    ELSE LET k == CHOOSE i \in 1..Len(s) :
                      ~IsSpace(s[i]) /\ \A j \in 1..(i - 1) : IsSpace(s[j])
         IN  SubSeq(s, k, Len(s))

\* str.rstrip()
RStrip(s) ==
    IF \A i \in 1..Len(s) : IsSpace(s[i]) THEN <<>>
    ELSE LET k == CHOOSE i \in 1..Len(s) :
                      ~IsSpace(s[i]) /\ \A j \in (i + 1)..Len(s) : IsSpace(s[j])
         IN  SubSeq(s, 1, k)

\* str.strip()
Strip(s) == LStrip(RStrip(s))

\* str.split(sep) for a one-character separator
RECURSIVE Split(_, _)
Split(s, sep) ==
    IF \A i \in 1..Len(s) : s[i] # sep THEN <<s>>
    ELSE LET k == CHOOSE i \in 1..Len(s) :
                      s[i] = sep /\ \A j \in 1..(i - 1) : s[j] # sep
         IN  <<SubSeq(s, 1, k - 1)>> \o Split(SubSeq(s, k + 1, Len(s)), sep)

(***************************************************************************)
(* PixelPrompt._wrap_text (core.py:464-499), with self._max_chars_per_line *)
(* as the parameter max_chars.                                             *)
(***************************************************************************)
\* the hard split of an over-long word (core.py:492-494): the chunks emitted
RECURSIVE SplitChunks(_, _)
SplitChunks(word, max_chars) ==
    IF Len(word) > max_chars
    THEN <<SubSeq(word, 1, max_chars)>>
           \o SplitChunks(SubSeq(word, max_chars + 1, Len(word)), max_chars)
    ELSE <<>>

\* mutant: the hard split is an "if", not a "while"
SplitRest_once(word, max_chars) ==
    IF Len(word) > max_chars
    THEN SubSeq(word, max_chars + 1, Len(word))
    ELSE word

\* ... and the remainder that becomes current_line (core.py:495)
RECURSIVE SplitRest(_, _)
SplitRest(word, max_chars) ==
    IF Len(word) > max_chars
    THEN SplitRest(SubSeq(word, max_chars + 1, Len(word)), max_chars)
    ELSE word

\* mutant: the line under construction is not appended after the last word
RECURSIVE WrapWords_dropLast(_, _, _, _)
WrapWords_dropLast(words, i, current_line, max_chars) ==
    IF i > Len(words) THEN <<>>
    ELSE LET word      == words[i]
             test_line == IF current_line # <<>>
                          THEN Strip(current_line \o <<" ">> \o word)
                          ELSE word
         IN  IF Len(test_line) <= max_chars
             THEN WrapWords_dropLast(words, i + 1, test_line, max_chars)
             ELSE (IF current_line # <<>> THEN <<current_line>> ELSE <<>>)
                    \o SplitChunks(word, max_chars)
                    \o WrapWords_dropLast(words, i + 1,
                                          SplitRest(word, max_chars), max_chars)

\* the loop over the words of one long paragraph (core.py:484-497)
RECURSIVE WrapWords(_, _, _, _)
WrapWords(words, i, current_line, max_chars) ==
    IF i > Len(words)
    THEN IF current_line # <<>> THEN <<current_line>> ELSE <<>>
    ELSE LET word      == words[i]
             test_line == IF current_line # <<>>
                          THEN Strip(current_line \o <<" ">> \o word)
                          ELSE word
         IN  IF Len(test_line) <= max_chars
             THEN WrapWords(words, i + 1, test_line, max_chars)
             ELSE (IF current_line # <<>> THEN <<current_line>> ELSE <<>>)
                    \o SplitChunks(word, max_chars)
                    \o WrapWords(words, i + 1, SplitRest(word, max_chars),
                                 max_chars)

\* mutant: the fit test is "<", so a line of exactly max_chars is re-wrapped
WrapParagraph_strict(paragraph, max_chars) ==
    IF paragraph = <<>> THEN << <<>> >>
    ELSE IF Len(paragraph) < max_chars THEN <<paragraph>>
    ELSE WrapWords(Split(paragraph, " "), 1, <<>>, max_chars)

WrapParagraph(paragraph, max_chars) ==
    IF paragraph = <<>> THEN << <<>> >>
    ELSE IF Len(paragraph) <= max_chars THEN <<paragraph>>
    ELSE WrapWords(Split(paragraph, " "), 1, <<>>, max_chars)

RECURSIVE WrapParagraphs(_, _, _)
WrapParagraphs(paragraphs, i, max_chars) ==
    IF i > Len(paragraphs) THEN <<>>
    ELSE WrapParagraph(paragraphs[i], max_chars)
           \o WrapParagraphs(paragraphs, i + 1, max_chars)

_wrap_text(txt, max_chars) == WrapParagraphs(Split(txt, "\n"), 1, max_chars)

(***************************************************************************)
(* PixelPrompt._paginate (core.py:501-508), with self._max_lines_per_image *)
(* as the parameter max_lines.                                             *)
(***************************************************************************)
\* mutant: the slice lines[i : i + max_lines - 1] loses the last line of a page
RECURSIVE PageChunks_short(_, _, _)
PageChunks_short(lines, i, max_lines) ==
    IF i > Len(lines) THEN <<>>
    ELSE <<SubSeq(lines, i, Min(i + max_lines - 2, Len(lines)))>>
           \o PageChunks_short(lines, i + max_lines, max_lines)

RECURSIVE PageChunks(_, _, _)
PageChunks(lines, i, max_lines) ==
    IF i > Len(lines) THEN <<>>
    ELSE <<SubSeq(lines, i, Min(i + max_lines - 1, Len(lines)))>>
           \o PageChunks(lines, i + max_lines, max_lines)

\* mutant: "return pages", without the fallback to one empty page
_paginate_bare(lines, max_lines) == PageChunks(lines, 1, max_lines)

_paginate(lines, max_lines) ==
    LET chunks == PageChunks(lines, 1, max_lines)
    IN  IF chunks # <<>> THEN chunks ELSE <<lines>>

(***************************************************************************)
(* PixelPrompt.minify_text (core.py:369-422).                              *)
(***************************************************************************)
\* re.sub(r"^#{1,6}\s+", "", s): the heading marker and the whitespace run
\* after it
LeadingHashes(s) ==
    IF \A i \in 1..Len(s) : s[i] = "#" THEN Len(s)
    ELSE (CHOOSE i \in 1..Len(s) :
              s[i] # "#" /\ \A j \in 1..(i - 1) : s[j] = "#") - 1

StripHeading(s) ==
    LET k == LeadingHashes(s)
    IN  IF k >= 1 /\ k <= 6 /\ k < Len(s) /\ IsSpace(s[k + 1])
        THEN LStrip(SubSeq(s, k + 1, Len(s)))
        ELSE s

\* str.replace(c + c, ""): the non-overlapping pairs, left to right
RECURSIVE RemovePairs(_, _)
RemovePairs(s, c) ==
    IF Len(s) < 2 THEN s
    ELSE IF s[1] = c /\ s[2] = c THEN RemovePairs(SubSeq(s, 3, Len(s)), c)
    ELSE <<s[1]>> \o RemovePairs(Tail(s), c)

\* re.sub(r"  +", " ", s): every run of two or more spaces becomes one space
RECURSIVE CollapseSpaces(_)
CollapseSpaces(s) ==
    IF Len(s) < 2 THEN s
    ELSE IF s[1] = " " /\ s[2] = " " THEN CollapseSpaces(Tail(s))
    ELSE <<s[1]>> \o CollapseSpaces(Tail(s))

Spaces(n) == [i \in 1..n |-> " "]

\* the body of the loop over the lines (core.py:394-405), for a line that is
\* not blank
CleanLine(line) ==
    LET stripped == RemovePairs(RemovePairs(StripHeading(RStrip(line)), "*"), "_")
        leading  == Len(stripped) - Len(LStrip(stripped))
        content  == CollapseSpaces(LStrip(stripped))
    IN  Spaces(leading) \o content

RECURSIVE CleanLines(_, _)
CleanLines(lines, i) ==
    IF i > Len(lines) THEN <<>>
    ELSE IF RStrip(lines[i]) = <<>> THEN CleanLines(lines, i + 1)
    ELSE <<CleanLine(lines[i])>> \o CleanLines(lines, i + 1)

\* re.match(r"^\s*[-*]\s", line)
IsListItem(line) ==
    LET body == LStrip(line)
    IN  Len(body) >= 2 /\ body[1] \in {"-", "*"} /\ IsSpace(body[2])

\* mutant: only list items keep their line break, indented lines are joined
RECURSIVE JoinCleaned_listOnly(_, _)
JoinCleaned_listOnly(cleaned, i) ==
    IF i > Len(cleaned) THEN <<>>
    ELSE LET line == cleaned[i]
         IN  (IF IsListItem(line)
              THEN <<"\n">> \o line
              ELSE <<" ">> \o line) \o JoinCleaned_listOnly(cleaned, i + 1)

\* the join (core.py:412-422)
RECURSIVE JoinCleaned(_, _)
JoinCleaned(cleaned, i) ==
    IF i > Len(cleaned) THEN <<>>
    ELSE LET line == cleaned[i]
         IN  (IF IsListItem(line) \/ (line # <<>> /\ line[1] = " ")
              THEN <<"\n">> \o line
              ELSE <<" ">> \o line) \o JoinCleaned(cleaned, i + 1)

minify_text(txt) ==
    LET cleaned == CleanLines(Split(txt, "\n"), 1)
    IN  IF cleaned = <<>> THEN <<>>
        ELSE cleaned[1] \o JoinCleaned(cleaned, 2)

(***************************************************************************)
(* PixelPrompt.compact_json (core.py:347-367).                             *)
(* json.loads is modelled on the documents the alphabets can spell: an     *)
(* optional minus sign and the digits 1..9 repeated (an integer), between  *)
(* optional JSON whitespace; json.dumps writes that integer back.          *)
(***************************************************************************)
JsonDigits == {"1", "2", "3", "4", "5", "6", "7", "8", "9"}
JsonPunct == {"{", "}", ":", ",", "[", "]"}

JsonIsInteger(s) ==
    LET digits == IF s # <<>> /\ s[1] = "-" THEN Tail(s) ELSE s
    IN  digits # <<>> /\ \A i \in 1..Len(digits) : digits[i] \in JsonDigits

\* re.sub(r"\s+", " ", s)
RECURSIVE CollapseWhitespace(_)
CollapseWhitespace(s) ==
    IF s = <<>> THEN s
    ELSE IF IsSpace(s[1])
         THEN IF Len(s) >= 2 /\ IsSpace(s[2]) THEN CollapseWhitespace(Tail(s))
              ELSE <<" ">> \o CollapseWhitespace(Tail(s))
         ELSE <<s[1]>> \o CollapseWhitespace(Tail(s))

\* re.sub(r"\s*([{}:,\[\]])\s*", r"\1", s) on a string whose whitespace runs
\* are single spaces: the spaces next to a punctuation character go
RECURSIVE TightenPunct(_, _)
TightenPunct(s, i) ==
    IF i > Len(s) THEN <<>>
    ELSE IF /\ IsSpace(s[i])
            /\ \/ (i > 1 /\ s[i - 1] \in JsonPunct)
               \/ (i < Len(s) /\ s[i + 1] \in JsonPunct)
         THEN TightenPunct(s, i + 1)
         ELSE <<s[i]>> \o TightenPunct(s, i + 1)

compact_json(txt) ==
    IF JsonIsInteger(Strip(txt))
    THEN Strip(txt)
    ELSE Strip(TightenPunct(CollapseWhitespace(txt), 1))

(***************************************************************************)
(* RenderConfig and the content-type presets (core.py:38-146).             *)
(* A configuration is a record of the fields the engine reads; None is the *)
(* string "None".  The colours take no part in layout and are left out.    *)
(***************************************************************************)
None == "None"
PresetNames == {"prose", "json", "code", "config"}

CONTENT_PRESETS ==
    [name \in PresetNames |->
        CASE name = "prose"  -> [font_size |-> 9, minify |-> TRUE]
          [] name = "json"   -> [font_size |-> 9, minify |-> TRUE]
          [] name = "code"   -> [font_size |-> 7, minify |-> FALSE]
          [] name = "config" -> [font_size |-> 8, minify |-> FALSE]]

\* the dataclass defaults (core.py:74-116)
DefaultConfig ==
    [font_size |-> 9, font_family |-> "monospace",
     max_width |-> 1568, max_height |-> 1568,
     dynamic_width |-> TRUE, dynamic_height |-> TRUE,
     padding |-> 5, line_spacing |-> 1,
     minify |-> TRUE, content_type |-> None]

\* RenderConfig.for_content (core.py:123-146), for a preset name
for_content(content_type) ==
    [DefaultConfig EXCEPT !.font_size = CONTENT_PRESETS[content_type].font_size,
                          !.minify = CONTENT_PRESETS[content_type].minify,
                          !.content_type = content_type]

(***************************************************************************)
(* PixelPrompt.__init__ and _validate_config (core.py:267-297).            *)
(***************************************************************************)
NoError == "ok"
ErrFontSize == "font_size must be between 6 and 20"
ErrFontFamily == "font_family must be 'monospace', 'serif', or 'sans-serif'"
ErrDimensions == "max_width must be >= 50 and max_height must be >= 20"
ErrPadding == "padding must be non-negative"
ErrLineSpacing == "line_spacing must be non-negative"

\* mutant: the size check is "and", so one side below its minimum passes
_validate_config_and(cfg) ==
    IF ~(6 <= cfg.font_size /\ cfg.font_size <= 20) THEN ErrFontSize
    ELSE IF cfg.font_family \notin {"monospace", "serif", "sans-serif"}
         THEN ErrFontFamily
    ELSE IF cfg.max_width < 50 /\ cfg.max_height < 20 THEN ErrDimensions
    ELSE IF cfg.padding < 0 THEN ErrPadding
    ELSE IF cfg.line_spacing < 0 THEN ErrLineSpacing
    ELSE NoError

\* the error _validate_config raises, or NoError
_validate_config(cfg) ==
    IF ~(6 <= cfg.font_size /\ cfg.font_size <= 20) THEN ErrFontSize
    ELSE IF cfg.font_family \notin {"monospace", "serif", "sans-serif"}
         THEN ErrFontFamily
    ELSE IF cfg.max_width < 50 \/ cfg.max_height < 20 THEN ErrDimensions
    ELSE IF cfg.padding < 0 THEN ErrPadding
    ELSE IF cfg.line_spacing < 0 THEN ErrLineSpacing
    ELSE NoError

\* core.py:278
LineHeight(cfg, c_height) == c_height + cfg.line_spacing

\* mutant: the quotient without the floor of one character
MaxCharsPerLine_noFloor(cfg, c_width) ==
    (cfg.max_width - 2 * cfg.padding) \div Max(1, c_width)

\* core.py:279-281
MaxCharsPerLine(cfg, c_width) ==
    Max(1, (cfg.max_width - 2 * cfg.padding) \div Max(1, c_width))

\* core.py:282-284
MaxLinesPerImage(cfg, l_height) ==
    Max(1, (cfg.max_height - 2 * cfg.padding) \div Max(1, l_height))

(***************************************************************************)
(* PixelPrompt._render_page (core.py:510-547): the image is the record of  *)
(* its width, its height and the token cost it carries.                    *)
(***************************************************************************)
\* max((len(line) for line in lines), default=0)
LongestLine(lines) ==
    IF lines = <<>> THEN 0
    ELSE LET k == CHOOSE i \in 1..Len(lines) :
                      \A j \in 1..Len(lines) : Len(lines[j]) <= Len(lines[i])
         IN  Len(lines[k])

\* mutant: the lower bound of 50 pixels is left out
PageWidth_noFloor(lines, cfg, c_width) ==
    IF cfg.dynamic_width
    THEN Min(cfg.max_width, LongestLine(lines) * c_width + 2 * cfg.padding)
    ELSE cfg.max_width

\* core.py:518-523
PageWidth(lines, cfg, c_width) ==
    IF cfg.dynamic_width
    THEN Min(cfg.max_width,
             Max(LongestLine(lines) * c_width + 2 * cfg.padding, 50))
    ELSE cfg.max_width

\* mutant: the cap at max_height is left out
PageHeight_noCap(lines, cfg, l_height) ==
    IF cfg.dynamic_height
    THEN Max(Len(lines) * l_height + 2 * cfg.padding, 20)
    ELSE cfg.max_height

\* core.py:525-529
PageHeight(lines, cfg, l_height) ==
    IF cfg.dynamic_height
    THEN Min(cfg.max_height,
             Max(Len(lines) * l_height + 2 * cfg.padding, 20))
    ELSE cfg.max_height

\* mutant: the token cost is that of the nominal canvas
_render_page_nominal(lines, cfg, c_width, l_height) ==
    [width |-> PageWidth(lines, cfg, c_width),
     height |-> PageHeight(lines, cfg, l_height),
     tokens |-> estimate_image_tokens(cfg.max_width, cfg.max_height)]

_render_page(lines, cfg, c_width, l_height) ==
    LET img_width  == PageWidth(lines, cfg, c_width)
        img_height == PageHeight(lines, cfg, l_height)
    IN  [width |-> img_width, height |-> img_height,
         tokens |-> estimate_image_tokens(img_width, img_height)]

(***************************************************************************)
(* PixelPrompt.render (core.py:424-462): the outcome of one call, as the   *)
(* record of the error raised and of the values of the locals.             *)
(***************************************************************************)
ErrEmptyText == "Text cannot be empty"
ErrEmptyAfterMinify == "Text is empty after minification"

\* a raise: nothing later is computed
Raised(err, txt) ==
    [error |-> err, compacted |-> txt, wrapped_lines |-> <<>>,
     pages |-> <<>>, images |-> <<>>]

\* core.py:442: not text or not text.strip()
IsEmptyInput(txt) == txt = <<>> \/ Strip(txt) = <<>>

\* mutant: the minify flag is tested before the content type
Compact_minifyFirst(txt, cfg) ==
    IF cfg.minify THEN minify_text(txt)
    ELSE IF cfg.content_type = "json" THEN compact_json(txt)
    ELSE txt

\* core.py:446-449: the text after the content-type-specific compaction
Compact(txt, cfg) ==
    IF cfg.content_type = "json" THEN compact_json(txt)
    ELSE IF cfg.minify THEN minify_text(txt)
    ELSE txt

\* mutant: "if not text", without the strip
EmptyAfterMinify_noStrip(txt, cfg) ==
    /\ cfg.content_type # "json"
    /\ cfg.minify
    /\ minify_text(txt) = <<>>

\* core.py:448-451: the minification branch found the text empty
EmptyAfterMinify(txt, cfg) ==
    /\ cfg.content_type # "json"
    /\ cfg.minify
    /\ Strip(minify_text(txt)) = <<>>

\* mutant: the images are returned last page first
Layout_lastPageFirst(txt, cfg, c_width, l_height, max_chars, max_lines) ==
    LET wrapped == _wrap_text(txt, max_chars)
        pgs     == _paginate(wrapped, max_lines)
    IN  [error |-> NoError, compacted |-> txt, wrapped_lines |-> wrapped,
         pages |-> pgs,
         images |-> [i \in 1..Len(pgs) |->
                        _render_page(pgs[Len(pgs) + 1 - i], cfg, c_width,
                                     l_height)]]

\* core.py:453-462
Layout(txt, cfg, c_width, l_height, max_chars, max_lines) ==
    LET wrapped == _wrap_text(txt, max_chars)
        pgs     == _paginate(wrapped, max_lines)
    IN  [error |-> NoError, compacted |-> txt, wrapped_lines |-> wrapped,
         pages |-> pgs,
         images |-> [i \in 1..Len(pgs) |->
                        _render_page(pgs[i], cfg, c_width, l_height)]]

\* mutant: the empty-input check comes after the compaction
render_compactFirst(txt, cfg, c_width, l_height, max_chars, max_lines) ==
    IF EmptyAfterMinify(txt, cfg)
    THEN Raised(ErrEmptyAfterMinify, minify_text(txt))
    ELSE IF IsEmptyInput(Compact(txt, cfg)) THEN Raised(ErrEmptyText, txt)
    ELSE Layout(Compact(txt, cfg), cfg, c_width, l_height, max_chars, max_lines)

render(txt, cfg, c_width, l_height, max_chars, max_lines) ==
    IF IsEmptyInput(txt) THEN Raised(ErrEmptyText, txt)
    ELSE IF EmptyAfterMinify(txt, cfg)
         THEN Raised(ErrEmptyAfterMinify, minify_text(txt))
    ELSE Layout(Compact(txt, cfg), cfg, c_width, l_height, max_chars, max_lines)

(***************************************************************************)
(* optimize_prompt (prompts.py:28-69).                                     *)
(***************************************************************************)
CONCISE_SUFFIX ==
    <<"A", "n", "s", "w", "e", "r", " ", "w", "i", "t", "h", " ", "O", "N",
      "L", "Y", " ", "t", "h", "e", " ", "a", "n", "s", "w", "e", "r", " ",
      "v", "a", "l", "u", "e", ".", " ", "N", "o", " ", "e", "x", "p", "l",
      "a", "n", "a", "t", "i", "o", "n", ",", " ", "n", "o", " ", "p", "r",
      "e", "a", "m", "b", "l", "e", ".">>

EXTRACT_SUFFIX ==
    <<"E", "x", "t", "r", "a", "c", "t", " ", "a", "n", "d", " ", "r", "e",
      "t", "u", "r", "n", " ", "O", "N", "L", "Y", " ", "t", "h", "e", " ",
      "r", "e", "q", "u", "e", "s", "t", "e", "d", " ", "v", "a", "l", "u",
      "e", ".", " ", "N", "o", "t", "h", "i", "n", "g", " ", "e", "l", "s",
      "e", ".">>

STRUCTURED_SUFFIX ==
    <<"R", "e", "t", "u", "r", "n", " ", "O", "N", "L", "Y", " ", "t", "h",
      "e", " ", "r", "e", "s", "u", "l", "t", " ", "i", "n", " ", "t", "h",
      "e", " ", "r", "e", "q", "u", "e", "s", "t", "e", "d", " ", "f", "o",
      "r", "m", "a", "t", ".", " ", "N", "o", " ", "c", "o", "m", "m", "e",
      "n", "t", "a", "r", "y", ".">>

\* suffixes.get(style, CONCISE_SUFFIX) (prompts.py:53-59)
SuffixFor(style) ==
    IF style = "extract" THEN EXTRACT_SUFFIX
    ELSE IF style = "structured" THEN STRUCTURED_SUFFIX
    ELSE CONCISE_SUFFIX

\* suffix in prompt
Contains(prompt, suffix) ==
    \E i \in 1..(Len(prompt) - Len(suffix) + 1) :
        SubSeq(prompt, i, i + Len(suffix) - 1) = suffix

\* prompt.endswith(suffix)
EndsWith(prompt, suffix) ==
    /\ Len(prompt) >= Len(suffix)
    /\ SubSeq(prompt, Len(prompt) - Len(suffix) + 1, Len(prompt)) = suffix

\* prompt.endswith((".", "?", "!", ":"))
EndsSentence(prompt) ==
    prompt # <<>> /\ prompt[Len(prompt)] \in {".", "?", "!", ":"}

\* prompts.py:66-69
AppendSuffix(prompt, suffix) ==
    LET stripped == RStrip(prompt)
    IN  (IF EndsSentence(stripped) THEN stripped ELSE stripped \o <<".">>)
          \o <<" ">> \o suffix

\* mutant: the suffix is looked for at the end of the prompt only
optimize_prompt_endswith(prompt, style) ==
    IF style = "none" THEN prompt
    ELSE IF EndsWith(prompt, SuffixFor(style)) THEN prompt
    ELSE AppendSuffix(prompt, SuffixFor(style))

optimize_prompt(prompt, style) ==
    IF style = "none" THEN prompt
    ELSE IF Contains(prompt, SuffixFor(style)) THEN prompt
    ELSE AppendSuffix(prompt, SuffixFor(style))

(***************************************************************************)
(* PixelPrompt.compare (core.py:549-593) and the pricing table             *)
(* (core.py:28-32): prices are in dollars per million tokens, costs in     *)
(* units of 1e-8 dollar, the savings percentage in tenths of a percent.    *)
(***************************************************************************)
OPUS_KEY ==
    <<"c", "l", "a", "u", "d", "e", "-", "o", "p", "u", "s", "-", "4",
      "-", "6">>
SONNET_KEY ==
    <<"c", "l", "a", "u", "d", "e", "-", "s", "o", "n", "n", "e", "t",
      "-", "4", "-", "5">>
HAIKU_KEY ==
    <<"c", "l", "a", "u", "d", "e", "-", "h", "a", "i", "k", "u", "-",
      "4", "-", "5">>

\* the entries in the order the dictionary lists them
MODEL_PRICING ==
    <<[key |-> OPUS_KEY, input |-> 5, output |-> 25],
      [key |-> SONNET_KEY, input |-> 3, output |-> 15],
      [key |-> HAIKU_KEY, input |-> 1, output |-> 5]>>

\* core.py:567-573: the first entry whose key occurs in the model name, the
\* opus entry when none does
PricingFor(mdl) ==
    IF \E i \in 1..Len(MODEL_PRICING) : Contains(mdl, MODEL_PRICING[i].key)
    THEN MODEL_PRICING[CHOOSE i \in 1..Len(MODEL_PRICING) :
                          /\ Contains(mdl, MODEL_PRICING[i].key)
                          /\ \A j \in 1..(i - 1) :
                                ~Contains(mdl, MODEL_PRICING[j].key)]
    ELSE MODEL_PRICING[1]

\* sum(img.tokens for img in images)
RECURSIVE TotalTokens(_, _)
TotalTokens(imgs, i) ==
    IF i > Len(imgs) THEN 0 ELSE imgs[i].tokens + TotalTokens(imgs, i + 1)

\* round(n / d * 10) for d > 0, to the nearest integer
RoundTenths(n, d) == (2 * 10 * n + d) \div (2 * d)

\* mutant: the reference count is len(text) / 4 rounded up
compare_ceil(txt, mdl, imgs) ==
    LET text_tokens  == Max(1, (Len(txt) + 3) \div 4)
        image_tokens == TotalTokens(imgs, 1)
        pricing      == PricingFor(mdl)
    IN  [text_tokens |-> text_tokens,
         image_tokens |-> image_tokens,
         num_images |-> Len(imgs),
         image_dimensions |->
             [i \in 1..Len(imgs) |->
                 [width |-> imgs[i].width, height |-> imgs[i].height]],
         input_savings_pct |->
             RoundTenths((text_tokens - image_tokens) * 100, text_tokens),
         text_cost_per_call |-> text_tokens * pricing.input * 100,
         image_cost_per_call |-> image_tokens * pricing.input * 100,
         model |-> mdl]

\* core.py:563-593, for the images render returned
compare(txt, mdl, imgs) ==
    LET text_tokens  == Max(1, Len(txt) \div 4)
        image_tokens == TotalTokens(imgs, 1)
        pricing      == PricingFor(mdl)
    IN  [text_tokens |-> text_tokens,
         image_tokens |-> image_tokens,
         num_images |-> Len(imgs),
         image_dimensions |->
             [i \in 1..Len(imgs) |->
                 [width |-> imgs[i].width, height |-> imgs[i].height]],
         input_savings_pct |->
             RoundTenths((text_tokens - image_tokens) * 100, text_tokens),
         text_cost_per_call |-> text_tokens * pricing.input * 100,
         image_cost_per_call |-> image_tokens * pricing.input * 100,
         model |-> mdl]

(***************************************************************************)
(* Bounds and sample sets.                                                 *)
(***************************************************************************)
SeqsUpTo(S, n) == UNION {[1..k -> S] : k \in 0..n}

\* no call is in progress, no engine is bound, no cost has been estimated
TokensIdle == est_width = 0 /\ est_height = 0 /\ est_tokens = 0

EngineIdle ==
    /\ config = DefaultConfig
    /\ status = "unbound"
    /\ font_size = 0
    /\ char_width = 0
    /\ char_height = 0
    /\ line_height = 0
    /\ max_chars_per_line = 0
    /\ max_lines_per_image = 0

CallIdle ==
    /\ text = <<>>
    /\ error = NoError
    /\ compacted = <<>>
    /\ wrapped_lines = <<>>
    /\ pages = <<>>
    /\ images = <<>>

MinifyIdle ==
    /\ minify_arg = <<>>
    /\ cleaned_lines = <<>>
    /\ minified = <<>>
    /\ minify_calls = 0

PromptIdle ==
    /\ opt_prompt = <<>>
    /\ opt_style = "none"
    /\ optimized = <<>>

CompareIdle ==
    /\ model = <<>>
    /\ report = <<>>

FontIdle ==
    /\ font_available = {}
    /\ font_index = 0
    /\ font = "unresolved"

LoopsIdle ==
    /\ split_word = <<>>
    /\ split_chunks = <<>>
    /\ page_start = 0

StepsIdle == FontIdle /\ calls = <<>> /\ LoopsIdle

(***************************************************************************)
(* The token cost model on its own: the arguments are drawn, then the      *)
(* function is applied.                                                    *)
(***************************************************************************)
SmallDim == 3
DimSamples == (1..SmallDim) \cup {749, 750, 1567, 1568, 1569, 2093, 3000, 3136}

InitTokens ==
    /\ pc = "init"
    /\ CompareIdle
    /\ StepsIdle
    /\ est_width \in DimSamples
    /\ est_height \in DimSamples
    /\ est_tokens = 0
    /\ EngineIdle
    /\ CallIdle
    /\ MinifyIdle
    /\ PromptIdle

EstimateImageTokens ==
    /\ pc = "init"
    /\ pc' = "estimate_image_tokens"
    /\ est_tokens' = estimate_image_tokens(est_width, est_height)
    /\ UNCHANGED <<compareVars, stepVars, minifyVars, promptVars, est_width, est_height, engineVars,
                   callVars>>

NextTokens == EstimateImageTokens

SpecTokens == InitTokens /\ [][NextTokens]_vars

(***************************************************************************)
(* Word wrap on its own: a text and a line limit are drawn, then           *)
(* _wrap_text is applied.                                                  *)
(***************************************************************************)
MaxWrapLen == 5
MaxWrapChars == 3
WrapAlphabet == {"a", " ", "\t", "\n"}

InitWrap ==
    /\ pc = "init"
    /\ CompareIdle
    /\ StepsIdle
    /\ text \in SeqsUpTo(WrapAlphabet, MaxWrapLen)
    /\ max_chars_per_line \in 1..MaxWrapChars
    /\ config = DefaultConfig
    /\ status = "ready"
    /\ font_size = 0
    /\ char_width = 0
    /\ char_height = 0
    /\ line_height = 0
    /\ max_lines_per_image = 0
    /\ error = NoError
    /\ compacted = <<>>
    /\ wrapped_lines = <<>>
    /\ pages = <<>>
    /\ images = <<>>
    /\ TokensIdle
    /\ MinifyIdle
    /\ PromptIdle

WrapText ==
    /\ pc = "init"
    /\ pc' = "_wrap_text"
    /\ wrapped_lines' = _wrap_text(text, max_chars_per_line)
    /\ UNCHANGED <<compareVars, stepVars, minifyVars, promptVars, tokenVars, engineVars, text, error,
                   compacted, pages, images>>

NextWrap == WrapText

SpecWrap == InitWrap /\ [][NextWrap]_vars

(***************************************************************************)
(* Pagination on its own: a line sequence and a page limit are drawn,      *)
(* then _paginate is applied.                                              *)
(***************************************************************************)
MaxPageLines == 4
MaxPageLimit == 3
SampleLines == {<<>>, <<"a">>, <<"b", "b">>}

InitPaginate ==
    /\ pc = "init"
    /\ CompareIdle
    /\ StepsIdle
    /\ wrapped_lines \in SeqsUpTo(SampleLines, MaxPageLines)
    /\ max_lines_per_image \in 1..MaxPageLimit
    /\ config = DefaultConfig
    /\ status = "ready"
    /\ font_size = 0
    /\ char_width = 0
    /\ char_height = 0
    /\ line_height = 0
    /\ max_chars_per_line = 0
    /\ text = <<>>
    /\ error = NoError
    /\ compacted = <<>>
    /\ pages = <<>>
    /\ images = <<>>
    /\ TokensIdle
    /\ MinifyIdle
    /\ PromptIdle

Paginate ==
    /\ pc = "init"
    /\ pc' = "_paginate"
    /\ pages' = _paginate(wrapped_lines, max_lines_per_image)
    /\ UNCHANGED <<compareVars, stepVars, minifyVars, promptVars, tokenVars, engineVars, text, error,
                   compacted,
                   wrapped_lines, images>>

NextPaginate == Paginate

SpecPaginate == InitPaginate /\ [][NextPaginate]_vars

(***************************************************************************)
(* The text normalizer on its own: a text is drawn, minify_text is applied *)
(* to it, and then again to what it returned.                              *)
(***************************************************************************)
MaxMinifyLen == 5
MaxMinifyCalls == 2
MinifyAlphabet == {"a", " ", "\t", "\n", "#", "*", "-"}
\* longer texts: a marker after a space before a joined line, markers that
\* meet once others are removed, a list item between two prose lines
MinifySamples ==
    {<<"a", " ", "*", "*", "\n", "a">>,
     <<"*", "_", "_", "*">>,
     <<"a", "\n", "-", " ", "a", "\n", "a">>}
MinifyTexts == SeqsUpTo(MinifyAlphabet, MaxMinifyLen) \cup MinifySamples

InitMinify ==
    /\ pc = "init"
    /\ CompareIdle
    /\ StepsIdle
    /\ text \in MinifyTexts
    /\ error = NoError
    /\ compacted = <<>>
    /\ wrapped_lines = <<>>
    /\ pages = <<>>
    /\ images = <<>>
    /\ EngineIdle
    /\ TokensIdle
    /\ MinifyIdle
    /\ PromptIdle

\* PixelPrompt.minify_text (core.py:369-422), called on the text and then on
\* its own result
MinifyText ==
    /\ pc \in {"init", "minify_text"}
    /\ minify_calls < MaxMinifyCalls
    /\ \E arg \in {IF minify_calls = 0 THEN text ELSE minified} :
          /\ minify_arg' = arg
          /\ cleaned_lines' = CleanLines(Split(arg, "\n"), 1)
          /\ minified' = minify_text(arg)
    /\ minify_calls' = minify_calls + 1
    /\ pc' = "minify_text"
    /\ UNCHANGED <<compareVars, stepVars, tokenVars, engineVars, callVars, promptVars>>

NextMinify == MinifyText

SpecMinify == InitMinify /\ [][NextMinify]_vars

(***************************************************************************)
(* The prompt helper on its own: a prompt and a style are drawn, then      *)
(* optimize_prompt is applied.  A prompt is a short text, optionally one   *)
(* of the suffixes, and a short text after it.                             *)
(***************************************************************************)
MaxPromptLen == 2
MaxTailLen == 1
PromptAlphabet == {"a", ".", "?", ":", " "}
Styles == {"concise", "extract", "structured", "none", "verbose"}
Embedded == {<<>>, CONCISE_SUFFIX, EXTRACT_SUFFIX, STRUCTURED_SUFFIX}
Prompts ==
    {head \o mid \o tail :
        head \in SeqsUpTo(PromptAlphabet, MaxPromptLen),
        mid \in Embedded,
        tail \in SeqsUpTo(PromptAlphabet, MaxTailLen)}

InitPrompt ==
    /\ pc = "init"
    /\ CompareIdle
    /\ StepsIdle
    /\ opt_prompt \in Prompts
    /\ opt_style \in Styles
    /\ optimized = <<>>
    /\ EngineIdle
    /\ CallIdle
    /\ TokensIdle
    /\ MinifyIdle

\* optimize_prompt(prompt, style) (prompts.py:28-69)
OptimizePrompt ==
    /\ pc = "init"
    /\ pc' = "optimize_prompt"
    /\ optimized' = optimize_prompt(opt_prompt, opt_style)
    /\ UNCHANGED <<compareVars, stepVars, opt_prompt, opt_style, tokenVars, engineVars, callVars,
                   minifyVars>>

NextPrompt == OptimizePrompt

SpecPrompt == InitPrompt /\ [][NextPrompt]_vars

(***************************************************************************)
(* Font resolution on its own (core.py:310-338): which of the candidate    *)
(* paths can be opened is drawn, then the loop over font_paths runs one    *)
(* path at a time.  font is "trying" while the loop runs, then the path    *)
(* ImageFont.truetype opened or "default" for ImageFont.load_default().    *)
(***************************************************************************)
font_paths ==
    <<"/System/Library/Fonts/Menlo.ttc",
      "/System/Library/Fonts/Monaco.ttf",
      "/System/Library/Fonts/SFMono-Regular.otf",
      "/System/Library/Fonts/Supplemental/Courier New.ttf",
      "/usr/share/fonts/truetype/dejavu/DejaVuSansMono.ttf",
      "/usr/share/fonts/truetype/liberation/LiberationMono-Regular.ttf",
      "/Windows/Fonts/cour.ttf",
      "/Windows/Fonts/consola.ttf">>

\* mutant: a path that cannot be opened ends the search with the default font
TryPath_defaultOnFailure(index, available) ==
    IF index > Len(font_paths) THEN [font |-> "default", index |-> index]
    ELSE IF index \in available
         THEN [font |-> font_paths[index], index |-> index]
    ELSE [font |-> "default", index |-> index]

\* one turn of the loop (core.py:331-335), or the fallback after it
\* (core.py:338)
TryPath(index, available) ==
    IF index > Len(font_paths) THEN [font |-> "default", index |-> index]
    ELSE IF index \in available
         THEN [font |-> font_paths[index], index |-> index]
    ELSE [font |-> "trying", index |-> index + 1]

InitFont ==
    /\ pc = "init"
    /\ CompareIdle
    /\ font_available \in SUBSET (1..Len(font_paths))
    /\ font_index = 1
    /\ font = "trying"
    /\ calls = <<>>
    /\ LoopsIdle
    /\ EngineIdle
    /\ CallIdle
    /\ TokensIdle
    /\ MinifyIdle
    /\ PromptIdle

\* ImageFont.truetype(path, size) returns (core.py:333)
FontFound ==
    /\ font = "trying"
    /\ TryPath(font_index, font_available).font \notin {"trying", "default"}
    /\ font' = TryPath(font_index, font_available).font
    /\ font_index' = TryPath(font_index, font_available).index
    /\ pc' = "_find_font"
    /\ UNCHANGED <<font_available, calls, loopVars, compareVars, minifyVars,
                   promptVars, tokenVars, engineVars, callVars>>

\* ImageFont.truetype raises OSError, which is caught (core.py:334-335)
FontSkipped ==
    /\ font = "trying"
    /\ TryPath(font_index, font_available).font = "trying"
    /\ font' = "trying"
    /\ font_index' = TryPath(font_index, font_available).index
    /\ pc' = "_find_font"
    /\ UNCHANGED <<font_available, calls, loopVars, compareVars, minifyVars,
                   promptVars, tokenVars, engineVars, callVars>>

\* the list is exhausted: ImageFont.load_default() (core.py:338)
FontDefault ==
    /\ font = "trying"
    /\ TryPath(font_index, font_available).font = "default"
    /\ font' = "default"
    /\ font_index' = TryPath(font_index, font_available).index
    /\ pc' = "_find_font"
    /\ UNCHANGED <<font_available, calls, loopVars, compareVars, minifyVars,
                   promptVars, tokenVars, engineVars, callVars>>

NextFont == FontFound \/ FontSkipped \/ FontDefault

\* the loop is sequential code: a turn that can run does run
SpecFont == InitFont /\ [][NextFont]_vars /\ WF_vars(NextFont)

(***************************************************************************)
(* The engine: a configuration is drawn, PixelPrompt(config) binds it,     *)
(* and render is called on the engine.                                     *)
(***************************************************************************)
MaxTextLen == 3
Alphabet == {"1", " ", "\n", "*"}
\* longer texts: eight characters on one line, five lines of one character
LongTexts ==
    {<<"1", "1", "1", "1", "1", "1", "1", "1">>,
     <<"1", "\n", "1", "\n", "1", "\n", "1", "\n", "1">>}
Texts == SeqsUpTo(Alphabet, MaxTextLen) \cup LongTexts
\* model names: a pricing key, a name that holds one, a name that holds none
ModelIds ==
    {HAIKU_KEY, <<"a">> \o SONNET_KEY \o <<"b">>, <<"g", "p", "t">>}

FontSizes == {5, 7, 12, 21}
FontFamilies == {"monospace", "fantasy"}
\* <<max_width, max_height, padding>>
Geometries ==
    {<<50, 20, 5>>, <<60, 50, 14>>, <<50, 30, 22>>, <<1570, 1569, 780>>,
     <<40, 20, 5>>, <<50, 10, 5>>, <<50, 20, -1>>}
LineSpacings == {1, -1}
ContentTypes == PresetNames \cup {None, "html"}
\* <<width, height>> of the reference glyph, as _measure_char returns it
GlyphBoxes == {<<5, 7>>, <<8, 7>>}

Configs ==
    {[font_size |-> fs, font_family |-> ff,
      max_width |-> g[1], max_height |-> g[2],
      dynamic_width |-> dw, dynamic_height |-> dh,
      padding |-> g[3], line_spacing |-> ls,
      minify |-> mf, content_type |-> ct] :
        fs \in FontSizes, ff \in FontFamilies, g \in Geometries,
        dw \in BOOLEAN, dh \in BOOLEAN, ls \in LineSpacings,
        mf \in BOOLEAN, ct \in ContentTypes}

Init ==
    /\ pc = "init"
    /\ CompareIdle
    /\ StepsIdle
    /\ config \in Configs
    /\ status = "unbound"
    /\ font_size = 0
    /\ char_width = 0
    /\ char_height = 0
    /\ line_height = 0
    /\ max_chars_per_line = 0
    /\ max_lines_per_image = 0
    /\ CallIdle
    /\ TokensIdle
    /\ MinifyIdle
    /\ PromptIdle

\* PixelPrompt.__init__ raises what _validate_config raises (core.py:275)
ConstructFails ==
    /\ status = "unbound"
    /\ _validate_config(config) # NoError
    /\ pc' = "__init__"
    /\ status' = _validate_config(config)
    /\ UNCHANGED <<compareVars, stepVars, minifyVars, promptVars, config, font_size, char_width,
                   char_height, line_height,
                   max_chars_per_line, max_lines_per_image, tokenVars, callVars>>

\* PixelPrompt.__init__ (core.py:274-284): the font is loaded at
\* config.font_size and the reference glyph measured
Construct ==
    /\ status = "unbound"
    /\ _validate_config(config) = NoError
    /\ \E box \in GlyphBoxes :
          /\ char_width' = box[1]
          /\ char_height' = box[2]
          /\ line_height' = LineHeight(config, box[2])
          /\ max_chars_per_line' = MaxCharsPerLine(config, box[1])
          /\ max_lines_per_image' =
                 MaxLinesPerImage(config, LineHeight(config, box[2]))
    /\ font_size' = config.font_size
    /\ status' = "ready"
    /\ pc' = "__init__"
    /\ UNCHANGED <<compareVars, stepVars, minifyVars, promptVars, config, tokenVars, callVars>>

\* PixelPrompt.render(text) (core.py:424-462)
Render ==
    /\ status = "ready"
    /\ pc = "__init__"
    /\ \E txt \in Texts :
          \E out \in {render(txt, config, char_width, line_height,
                             max_chars_per_line, max_lines_per_image)} :
              /\ text' = txt
              /\ error' = out.error
              /\ compacted' = out.compacted
              /\ wrapped_lines' = out.wrapped_lines
              /\ pages' = out.pages
              /\ images' = out.images
    /\ pc' = "render"
    /\ UNCHANGED <<compareVars, stepVars, minifyVars, promptVars, tokenVars, engineVars>>

\* PixelPrompt.compare(text, model) (core.py:549-593): what render raises
\* propagates and no report is made
Compare ==
    /\ status = "ready"
    /\ pc = "__init__"
    /\ \E txt \in Texts, mdl \in ModelIds :
          \E out \in {render(txt, config, char_width, line_height,
                             max_chars_per_line, max_lines_per_image)} :
              /\ text' = txt
              /\ model' = mdl
              /\ error' = out.error
              /\ compacted' = out.compacted
              /\ wrapped_lines' = out.wrapped_lines
              /\ pages' = out.pages
              /\ images' = out.images
              /\ report' = IF out.error = NoError
                           THEN compare(txt, mdl, out.images)
                           ELSE <<>>
    /\ pc' = "compare"
    /\ UNCHANGED <<stepVars, minifyVars, promptVars, tokenVars, engineVars>>

Next == ConstructFails \/ Construct \/ Render \/ Compare

Spec == Init /\ [][Next]_vars

(***************************************************************************)
(* The two loops of render whose progress depends on the metrics, one      *)
(* iteration at a time: the hard split of a word longer than the line      *)
(* limit (core.py:492-495) and the pagination of the wrapped lines         *)
(* (core.py:503-508).  The engine is built from a configuration that       *)
(* validation accepts, with the metrics of __init__ (core.py:279-284).     *)
(***************************************************************************)
MaxWordLen == 7
\* <<max_width, max_height, padding>>, 2 * padding above the height and above
\* both maxima included
LoopGeometries == {<<50, 20, 5>>, <<60, 50, 14>>, <<50, 30, 22>>, <<50, 20, 30>>}
LoopSpacings == {0, 2}
LoopConfigs ==
    {[DefaultConfig EXCEPT !.max_width = g[1], !.max_height = g[2],
                           !.padding = g[3], !.line_spacing = ls] :
        g \in LoopGeometries, ls \in LoopSpacings}
LoopWords == {[i \in 1..n |-> "a"] : n \in 0..MaxWordLen}

InitLoops ==
    /\ pc = "_wrap_text"
    /\ CompareIdle
    /\ FontIdle
    /\ calls = <<>>
    /\ config \in LoopConfigs
    /\ _validate_config(config) = NoError
    /\ status = "ready"
    /\ font_size = config.font_size
    /\ \E box \in GlyphBoxes :
          /\ char_width = box[1]
          /\ char_height = box[2]
          /\ line_height = LineHeight(config, box[2])
          /\ max_chars_per_line = MaxCharsPerLine(config, box[1])
          /\ max_lines_per_image =
                 MaxLinesPerImage(config, LineHeight(config, box[2]))
    /\ text \in LoopWords
    /\ split_word = text
    /\ split_chunks = <<>>
    /\ page_start = 0
    /\ error = NoError
    /\ compacted = <<>>
    /\ wrapped_lines = <<>>
    /\ pages = <<>>
    /\ images = <<>>
    /\ TokensIdle
    /\ MinifyIdle
    /\ PromptIdle

\* one iteration of "while len(word) > self._max_chars_per_line"
\* (core.py:492-494)
SplitStep ==
    /\ pc = "_wrap_text"
    /\ Len(split_word) > max_chars_per_line
    /\ split_chunks' =
           Append(split_chunks, SubSeq(split_word, 1, max_chars_per_line))
    /\ split_word' =
           SubSeq(split_word, max_chars_per_line + 1, Len(split_word))
    /\ UNCHANGED <<pc, page_start, fontVars, calls, compareVars, minifyVars,
                   promptVars, tokenVars, engineVars, callVars>>

\* the loop condition fails: the rest of the word becomes the current line,
\* which is appended if it is not empty (core.py:495-497), and the lines go
\* to _paginate
SplitDone ==
    /\ pc = "_wrap_text"
    /\ ~(Len(split_word) > max_chars_per_line)
    /\ wrapped_lines' = split_chunks
           \o (IF split_word # <<>> THEN <<split_word>> ELSE <<>>)
    /\ pc' = "_paginate"
    /\ UNCHANGED <<loopVars, fontVars, calls, compareVars, minifyVars,
                   promptVars, tokenVars, engineVars, text, error, compacted,
                   pages, images>>

\* one iteration of "for i in range(0, len(lines), max_lines)"
\* (core.py:504-506)
PageStep ==
    /\ pc = "_paginate"
    /\ page_start < Len(wrapped_lines)
    /\ pages' = Append(pages,
                       SubSeq(wrapped_lines, page_start + 1,
                              Min(page_start + max_lines_per_image,
                                  Len(wrapped_lines))))
    /\ page_start' = page_start + max_lines_per_image
    /\ UNCHANGED <<pc, split_word, split_chunks, fontVars, calls, compareVars,
                   minifyVars, promptVars, tokenVars, engineVars, text, error,
                   compacted, wrapped_lines, images>>

\* the range is exhausted: return pages if pages else [lines] (core.py:508)
PageDone ==
    /\ pc = "_paginate"
    /\ ~(page_start < Len(wrapped_lines))
    /\ pages' = IF pages # <<>> THEN pages ELSE <<wrapped_lines>>
    /\ pc' = "done"
    /\ UNCHANGED <<loopVars, fontVars, calls, compareVars, minifyVars,
                   promptVars, tokenVars, engineVars, text, error, compacted,
                   wrapped_lines, images>>

NextLoops == SplitStep \/ SplitDone \/ PageStep \/ PageDone

\* the call runs on: a loop that can take its next step takes it
SpecLoops == InitLoops /\ [][NextLoops]_vars /\ WF_vars(NextLoops)

(***************************************************************************)
(* Concurrent render calls on one engine.  Each caller runs render         *)
(* (core.py:424-462) on its own text, one statement group at a time; the   *)
(* locals of a call (text, wrapped_lines, pages, images) live in the       *)
(* caller's frame calls[t], the configuration and the metrics are read     *)
(* from the engine.                                                        *)
(***************************************************************************)
NumCallers == 2
Callers == 1..NumCallers
ConcurrentTexts ==
    {<<"1">>, <<" ">>, <<"*", "*">>, <<"1", "\n", "1">>, <<"1", "\n", "-", " ", "1">>}
ConcurrentGeometries == {<<50, 20, 5>>, <<60, 50, 14>>}
ConcurrentConfigs ==
    {[DefaultConfig EXCEPT !.max_width = g[1], !.max_height = g[2],
                           !.padding = g[3], !.minify = mf,
                           !.content_type = ct] :
        g \in ConcurrentGeometries, mf \in BOOLEAN, ct \in {None, "json"}}

NewCall(txt) ==
    [stage |-> "start", text |-> txt, error |-> NoError, compacted |-> <<>>,
     wrapped_lines |-> <<>>, pages |-> <<>>, images |-> <<>>]

InitConcurrent ==
    /\ pc = "init"
    /\ CompareIdle
    /\ FontIdle
    /\ LoopsIdle
    /\ config \in ConcurrentConfigs
    /\ status = "ready"
    /\ font_size = config.font_size
    /\ \E box \in GlyphBoxes :
          /\ char_width = box[1]
          /\ char_height = box[2]
          /\ line_height = LineHeight(config, box[2])
          /\ max_chars_per_line = MaxCharsPerLine(config, box[1])
          /\ max_lines_per_image =
                 MaxLinesPerImage(config, LineHeight(config, box[2]))
    /\ calls \in {[t \in Callers |-> NewCall(txts[t])] :
                      txts \in [Callers -> ConcurrentTexts]}
    /\ CallIdle
    /\ TokensIdle
    /\ MinifyIdle
    /\ PromptIdle

\* mutant: the compacted text is kept in a field of the engine, which the
\* word-wrap stage reads back
WrapInput_engineField(t) == compacted

\* the argument of self._wrap_text(text) (core.py:454): the local text
WrapInput(t) == calls[t].compacted

\* a statement group of caller t leaves its locals as frame and nothing
\* else changed
Stepped(t, frame) ==
    /\ calls' = [calls EXCEPT ![t] = frame]
    /\ pc' = "render"
    /\ UNCHANGED <<fontVars, loopVars, compareVars, minifyVars, promptVars,
                   tokenVars, engineVars, callVars>>

\* core.py:442-443
CheckEmpty(t) ==
    /\ calls[t].stage = "start"
    /\ Stepped(t, IF IsEmptyInput(calls[t].text)
                  THEN [calls[t] EXCEPT !.stage = "raised",
                                        !.error = ErrEmptyText]
                  ELSE [calls[t] EXCEPT !.stage = "checked"])

\* core.py:446-451
CompactText(t) ==
    /\ calls[t].stage = "checked"
    /\ Stepped(t, IF EmptyAfterMinify(calls[t].text, config)
                  THEN [calls[t] EXCEPT
                           !.stage = "raised",
                           !.error = ErrEmptyAfterMinify,
                           !.compacted = minify_text(calls[t].text)]
                  ELSE [calls[t] EXCEPT
                           !.stage = "compacted",
                           !.compacted = Compact(calls[t].text, config)])

\* core.py:454
WrapLines(t) ==
    /\ calls[t].stage = "compacted"
    /\ Stepped(t, [calls[t] EXCEPT
                      !.stage = "wrapped",
                      !.wrapped_lines =
                          _wrap_text(WrapInput(t), max_chars_per_line)])

\* core.py:457
PaginateLines(t) ==
    /\ calls[t].stage = "wrapped"
    /\ Stepped(t, [calls[t] EXCEPT
                      !.stage = "paginated",
                      !.pages = _paginate(calls[t].wrapped_lines,
                                          max_lines_per_image)])

\* core.py:460-462
RenderPages(t) ==
    /\ calls[t].stage = "paginated"
    /\ Stepped(t, [calls[t] EXCEPT
                      !.stage = "done",
                      !.images =
                          [i \in 1..Len(calls[t].pages) |->
                              _render_page(calls[t].pages[i], config,
                                           char_width, line_height)]])

\* one caller runs its next statement group
NextConcurrent ==
    \/ \E t \in Callers : CheckEmpty(t)
    \/ \E t \in Callers : CompactText(t)
    \/ \E t \in Callers : WrapLines(t)
    \/ \E t \in Callers : PaginateLines(t)
    \/ \E t \in Callers : RenderPages(t)

SpecConcurrent == InitConcurrent /\ [][NextConcurrent]_vars

(***************************************************************************)
(* The engine whose configuration is written after it was bound:           *)
(* RenderConfig is a plain dataclass (core.py:70-116), PixelPrompt keeps a *)
(* reference to it (core.py:274), and a field of it can be assigned at any *)
(* time.  render may be called any number of times.                        *)
(***************************************************************************)
ReconfigGeometries == {<<50, 20, 5>>, <<60, 50, 14>>}
ReconfigSpacings == {1, 2}
ReconfigTexts == {<<"1">>, <<"1", "\n", "1">>, <<" ">>}
ReconfigConfigs ==
    {[DefaultConfig EXCEPT !.max_width = g[1], !.max_height = g[2],
                           !.padding = g[3], !.font_size = fs] :
        g \in ReconfigGeometries, fs \in FontSizes}

InitReconfigure ==
    /\ pc = "init"
    /\ CompareIdle
    /\ StepsIdle
    /\ config \in ReconfigConfigs
    /\ status = "unbound"
    /\ font_size = 0
    /\ char_width = 0
    /\ char_height = 0
    /\ line_height = 0
    /\ max_chars_per_line = 0
    /\ max_lines_per_image = 0
    /\ CallIdle
    /\ TokensIdle
    /\ MinifyIdle
    /\ PromptIdle

\* config.<field> = value: an assignment to a field of the dataclass, which
\* runs no code of the engine
AssignField ==
    /\ \/ \E fs \in FontSizes : config' = [config EXCEPT !.font_size = fs]
       \/ \E g \in ReconfigGeometries :
             config' = [config EXCEPT !.max_width = g[1]]
       \/ \E g \in ReconfigGeometries :
             config' = [config EXCEPT !.max_height = g[2]]
       \/ \E g \in ReconfigGeometries :
             config' = [config EXCEPT !.padding = g[3]]
       \/ \E ls \in ReconfigSpacings :
             config' = [config EXCEPT !.line_spacing = ls]
    /\ config' # config
    /\ pc' = "config"
    /\ UNCHANGED <<compareVars, stepVars, minifyVars, promptVars, tokenVars,
                   callVars, status, font_size, char_width, char_height,
                   line_height, max_chars_per_line, max_lines_per_image>>

\* PixelPrompt.render(text) (core.py:424-462) on an engine that may have
\* rendered before and whose configuration may have been written
RenderAgain ==
    /\ status = "ready"
    /\ \E txt \in ReconfigTexts :
          \E out \in {render(txt, config, char_width, line_height,
                             max_chars_per_line, max_lines_per_image)} :
              /\ text' = txt
              /\ error' = out.error
              /\ compacted' = out.compacted
              /\ wrapped_lines' = out.wrapped_lines
              /\ pages' = out.pages
              /\ images' = out.images
    /\ pc' = "render"
    /\ UNCHANGED <<compareVars, stepVars, minifyVars, promptVars, tokenVars,
                   engineVars>>

NextReconfigure == ConstructFails \/ Construct \/ AssignField \/ RenderAgain

SpecReconfigure == InitReconfigure /\ [][NextReconfigure]_vars

(***************************************************************************)
(* Properties.                                                             *)
(***************************************************************************)
Ceil(n, m) == (n + m - 1) \div m
Clamp(x, lo, hi) == IF x < lo THEN lo ELSE IF x > hi THEN hi ELSE x
IsBlankText(txt) == \A i \in 1..Len(txt) : txt[i] \in Whitespace

RECURSIVE Concat(_, _)
Concat(seqs, i) == IF i > Len(seqs) THEN <<>> ELSE seqs[i] \o Concat(seqs, i + 1)

RECURSIVE SumTokens(_, _)
SumTokens(imgs, i) ==
    IF i > Len(imgs) THEN 0 ELSE imgs[i].tokens + SumTokens(imgs, i + 1)

\* the cost model as the documentation states it: the longest side capped at
\* 1568, both sides scaled in proportion and truncated
DocScaled(d, width, height) ==
    IF Max(width, height) <= MAX_VISION_DIMENSION THEN d
    ELSE (d * MAX_VISION_DIMENSION) \div Max(width, height)

DocTokens(width, height) ==
    Max(1, (DocScaled(width, width, height) * DocScaled(height, width, height))
               \div TOKENS_PER_PIXEL_DIVISOR)

\* C1: for all width, height > 0, estimate_image_tokens(width, height) is
\* max(1, floor(sw * sh / 750)), where (sw, sh) is (width, height) when the
\* longest side is at most 1568 and otherwise each side times
\* 1568 / max(width, height), truncated.
C1_TokensAsDocumented ==
    pc = "estimate_image_tokens" =>
        est_tokens = DocTokens(est_width, est_height)

\* C2: every physical line _wrap_text returns is at most max_chars_per_line
\* long, the fragments of a force-split word and the lines after it included.
C2_LinesWithinLimit ==
    pc = "_wrap_text" =>
        \A i \in 1..Len(wrapped_lines) :
            Len(wrapped_lines[i]) <= max_chars_per_line

\* a word longer than the limit was force-split and a line follows the split
C2_Witness ==
    /\ pc = "_wrap_text"
    /\ max_chars_per_line = 2
    /\ text = <<"a", "a", "a", " ", "a">>
    /\ wrapped_lines = << <<"a", "a">>, <<"a">>, <<"a">> >>

\* C3: the pages _paginate returns, concatenated in order, are the input
\* line sequence.
C3_PagesReconstruct ==
    pc = "_paginate" => Concat(pages, 1) = wrapped_lines

\* several pages, the last one partly filled
C3_Witness ==
    /\ pc = "_paginate"
    /\ Len(pages) >= 2
    /\ Len(pages[Len(pages)]) < max_lines_per_image
    /\ \E i, j \in 1..Len(wrapped_lines) : wrapped_lines[i] # wrapped_lines[j]

\* C4: for n lines _paginate returns max(1, ceil(n / max_lines_per_page))
\* pages of at most max_lines_per_page lines each; no lines give exactly one
\* page, the empty one, and for n > 0 no page is empty.
C4_PageCount ==
    pc = "_paginate" =>
        /\ Len(pages) = Max(1, Ceil(Len(wrapped_lines), max_lines_per_image))
        /\ \A i \in 1..Len(pages) : Len(pages[i]) <= max_lines_per_image
        /\ wrapped_lines = <<>> => pages = << <<>> >>
        /\ wrapped_lines # <<>> => \A i \in 1..Len(pages) : pages[i] # <<>>

\* the empty line list was paginated into its single empty page
C4_Witness ==
    /\ pc = "_paginate"
    /\ wrapped_lines = <<>>
    /\ pages = << <<>> >>

\* the minification branch of render is taken and leaves nothing
MinifiesToNothing ==
    /\ pc = "render"
    /\ config.minify
    /\ config.content_type # "json"
    /\ Strip(minify_text(text)) = <<>>

\* C5 as stated: with minification on and a non-JSON content type, render of
\* a text that minifies to nothing (for example only blank lines) raises the
\* empty-after-minification error.
C5_AsClaimed ==
    MinifiesToNothing /\ text # <<>> => error = ErrEmptyAfterMinify

\* C5 amended: the empty-after-minification error is raised for a text that
\* is not whitespace-only and minifies to nothing; a text of blank lines only
\* is whitespace-only and raises the generic empty-text error.
C5_MinifyEmptyError ==
    MinifiesToNothing =>
        error = IF IsBlankText(text) THEN ErrEmptyText ELSE ErrEmptyAfterMinify

\* the text "**" was rendered with minification on
C5_Witness ==
    /\ MinifiesToNothing
    /\ text = <<"*", "*">>
    /\ error = ErrEmptyAfterMinify

\* C6: render rejects every empty or whitespace-only text with the error
\* "Text cannot be empty", whatever the configuration, before any compaction,
\* minification, wrapping or page rendering.
C6_EmptyTextRejected ==
    pc = "render" /\ IsBlankText(text) =>
        /\ error = ErrEmptyText
        /\ compacted = text
        /\ wrapped_lines = <<>>
        /\ pages = <<>>
        /\ images = <<>>

\* a whitespace-only text was rendered with minification on
C6_Witness ==
    /\ pc = "render"
    /\ text = <<" ", "\n">>
    /\ config.minify
    /\ config.content_type = None
    /\ error = ErrEmptyText

\* C7: the image of a page is clamp(longest line * char_width + 2 * padding,
\* 50, max_width) wide when dynamic_width is on and max_width wide otherwise,
\* and clamp(line count * line_height + 2 * padding, 20, max_height) high
\* when dynamic_height is on and max_height high otherwise.
C7_PageDimensions ==
    pc = "render" =>
        \A i \in 1..Len(images) :
            /\ images[i].width =
                   IF config.dynamic_width
                   THEN Clamp(LongestLine(pages[i]) * char_width
                                  + 2 * config.padding, 50, config.max_width)
                   ELSE config.max_width
            /\ images[i].height =
                   IF config.dynamic_height
                   THEN Clamp(Len(pages[i]) * line_height
                                  + 2 * config.padding, 20, config.max_height)
                   ELSE config.max_height

\* dynamic width alone: a width strictly between the clamps, the full height
C7_Witness ==
    /\ pc = "render"
    /\ error = NoError
    /\ config.dynamic_width
    /\ ~config.dynamic_height
    /\ images[1].width > 50
    /\ images[1].width < config.max_width
    /\ images[1].height = config.max_height

\* C8: every image render returns carries the token cost of its own final
\* dimensions.
C8_TokenCostOfFinalDimensions ==
    pc = "render" =>
        \A i \in 1..Len(images) :
            images[i].tokens =
                estimate_image_tokens(images[i].width, images[i].height)

\* an image whose cost differs from the cost of the nominal canvas
C8_Witness ==
    /\ pc = "render"
    /\ error = NoError
    /\ images[1].tokens #
           estimate_image_tokens(config.max_width, config.max_height)

\* the summed cost of the same text on the same engine with both dynamic
\* flags off
StaticTotal ==
    SumTokens(render(text,
                     [config EXCEPT !.dynamic_width = FALSE,
                                    !.dynamic_height = FALSE],
                     char_width, line_height, max_chars_per_line,
                     max_lines_per_image).images, 1)

\* a successful render with both dynamic flags on
DynamicRender ==
    /\ pc = "render"
    /\ error = NoError
    /\ config.dynamic_width
    /\ config.dynamic_height

\* every page's content is smaller than the maximum dimensions
ContentSmaller ==
    \A i \in 1..Len(pages) :
        /\ LongestLine(pages[i]) * char_width + 2 * config.padding
               < config.max_width
        /\ Len(pages[i]) * line_height + 2 * config.padding
               < config.max_height

\* C9 as stated: whenever the content is smaller than the maximum
\* dimensions, the summed cost with both dynamic flags on is strictly less
\* than with both off.
C9_AsClaimed ==
    DynamicRender /\ ContentSmaller => SumTokens(images, 1) < StaticTotal

\* C9 amended: when neither maximum dimension exceeds 1568, the summed cost
\* with both dynamic flags on is never greater than with both off.
C9_DynamicNeverCostsMore ==
    /\ DynamicRender
    /\ config.max_width <= MAX_VISION_DIMENSION
    /\ config.max_height <= MAX_VISION_DIMENSION
    => SumTokens(images, 1) <= StaticTotal

\* content smaller than the canvas was rendered at a strictly lower cost
C9_Witness ==
    /\ DynamicRender
    /\ ContentSmaller
    /\ config.max_width <= MAX_VISION_DIMENSION
    /\ config.max_height <= MAX_VISION_DIMENSION
    /\ SumTokens(images, 1) < StaticTotal

\* C10: an engine bound to a configuration whose content_type names a preset
\* uses that preset's font_size and minify flag, whatever font_size and
\* minify the configuration gives.
C10_PresetOverrides ==
    status = "ready" /\ config.content_type \in PresetNames =>
        /\ font_size = CONTENT_PRESETS[config.content_type].font_size
        /\ pc = "render" /\ ~IsBlankText(text) /\ config.content_type # "json"
           => compacted = IF CONTENT_PRESETS[config.content_type].minify
                          THEN minify_text(text)
                          ELSE text

ConfigErrors ==
    {ErrFontSize, ErrFontFamily, ErrDimensions, ErrPadding, ErrLineSpacing}

\* C11: constructing an engine from a configuration whose content_type is
\* neither None nor a preset name fails with a configuration error.
C11_UnknownContentTypeRejected ==
    status # "unbound" /\ config.content_type \notin PresetNames \cup {None}
        => status \in ConfigErrors

\* every validated field of the configuration is in its range
InRange(cfg) ==
    /\ cfg.font_size \in 6..20
    /\ cfg.font_family \in {"monospace", "serif", "sans-serif"}
    /\ cfg.max_width >= 50
    /\ cfg.max_height >= 20
    /\ cfg.padding >= 0
    /\ cfg.line_spacing >= 0

\* C12: a configuration exists as data whatever its values; binding it to an
\* engine fails with a configuration error when a validated field is out of
\* range and succeeds when all of them are in range.
C12_ValidatedAtBinding ==
    /\ status = "unbound" => pc = "init" /\ error = NoError
    /\ status # "unbound" =>
          IF InRange(config) THEN status = "ready" ELSE status \in ConfigErrors

\* a configuration valid but for one side of the canvas was refused
C12_Witness ==
    /\ pc = "__init__"
    /\ status = ErrDimensions
    /\ config.max_width >= 50
    /\ config.max_height < 20

NotBlank(line) == RStrip(line) # <<>>

HasDoubleSpace(txt) ==
    \E i \in 1..(Len(txt) - 1) : txt[i] = " " /\ txt[i + 1] = " "

\* a text with no blank line, no heading marker and only single spaces
AlreadyMinified(txt) ==
    LET lines == Split(txt, "\n")
    IN  /\ \A i \in 1..Len(lines) :
              NotBlank(lines[i]) /\ StripHeading(lines[i]) = lines[i]
        /\ ~HasDoubleSpace(txt)

\* C13: for a text x that is already minified (no blank lines, no heading
\* markers, only single spaces), minify_text(minify_text(x)) is
\* minify_text(x).
C13_Idempotent ==
    minify_calls = 2 /\ AlreadyMinified(text) => minified = minify_arg

\* C14: the output of minify_text is the empty string exactly when every
\* input line is blank, and otherwise none of its lines is empty or
\* whitespace-only.
C14_NoBlankLineSurvives ==
    minify_calls = 1 =>
        LET lines == Split(text, "\n")
            out   == Split(minified, "\n")
        IN  /\ minified = <<>> <=> \A i \in 1..Len(lines) : ~NotBlank(lines[i])
            /\ minified # <<>> => \A i \in 1..Len(out) : NotBlank(out[i])

\* the index in the output of the last character of the i-th surviving line
RECURSIVE PartEnd(_, _)
PartEnd(cl, i) ==
    IF i = 0 THEN 0
    ELSE PartEnd(cl, i - 1) + Len(cl[i]) + (IF i = 1 THEN 0 ELSE 1)

\* optional leading whitespace, then "-" or "*", then a whitespace character
ListItemLine(line) ==
    \E k \in 1..(Len(line) - 1) :
        /\ \A j \in 1..(k - 1) : IsSpace(line[j])
        /\ line[k] \in {"-", "*"}
        /\ IsSpace(line[k + 1])

KeepsBreak(line) == ListItemLine(line) \/ (line # <<>> /\ line[1] = " ")

\* C15: in the output the first surviving line stands as it is; each later
\* one follows a line break when it is a list item or begins with a space,
\* and a single space otherwise; the line breaks of the output are as many
\* as the later surviving lines that are list items or indented.
C15_RejoinRule ==
    minify_calls >= 1 =>
        LET cl  == cleaned_lines
            out == minified
        IN  IF cl = <<>> THEN out = <<>>
            ELSE /\ Len(out) = PartEnd(cl, Len(cl))
                 /\ \A i \in 1..Len(cl) :
                       SubSeq(out, PartEnd(cl, i) - Len(cl[i]) + 1,
                              PartEnd(cl, i)) = cl[i]
                 /\ \A i \in 2..Len(cl) :
                       out[PartEnd(cl, i - 1) + 1] =
                           IF KeepsBreak(cl[i]) THEN "\n" ELSE " "
                 /\ Cardinality({i \in 1..Len(out) : out[i] = "\n"}) =
                       Cardinality({i \in 2..Len(cl) : KeepsBreak(cl[i])})

\* three lines survived: one later line kept its break, another was joined
C15_Witness ==
    /\ minify_calls = 1
    /\ Len(cleaned_lines) >= 3
    /\ \E i, j \in 2..Len(cleaned_lines) :
          KeepsBreak(cleaned_lines[i]) /\ ~KeepsBreak(cleaned_lines[j])
    /\ \E i \in 1..Len(minified) : minified[i] = "\n"

LeadingWhitespace(line) == SubSeq(line, 1, Len(line) - Len(LStrip(line)))

\* C16: the leading whitespace of each processed line is, character for
\* character, the leading whitespace of the input line it came from.
C16_IndentPreserved ==
    minify_calls = 1 =>
        LET kept == SelectSeq(Split(text, "\n"), NotBlank)
        IN  /\ Len(cleaned_lines) = Len(kept)
            /\ \A i \in 1..Len(kept) :
                  LeadingWhitespace(cleaned_lines[i]) = LeadingWhitespace(kept[i])

C18_FittingLinesUnchanged ==
    pc = "_wrap_text" =>
        LET logical == Split(text, "\n")
            n       == Len(logical)
            m       == Len(wrapped_lines)
            Fits(j) == Len(logical[j]) <= max_chars_per_line
        IN  \A k \in 1..n :
                /\ (\A j \in 1..k : Fits(j)) =>
                      /\ m >= k
                      /\ SubSeq(wrapped_lines, 1, k) = SubSeq(logical, 1, k)
                /\ (\A j \in (n - k + 1)..n : Fits(j)) =>
                      /\ m >= k
                      /\ SubSeq(wrapped_lines, m - k + 1, m) =
                             SubSeq(logical, n - k + 1, n)
                /\ (k = n /\ \A j \in 1..n : Fits(j)) => wrapped_lines = logical

\* an empty line and a line of exactly max_chars_per_line that ends in
\* whitespace came back as they were
C18_Witness ==
    /\ pc = "_wrap_text"
    /\ wrapped_lines = Split(text, "\n")
    /\ \E i, j \in 1..Len(wrapped_lines) :
          /\ wrapped_lines[i] = <<>>
          /\ Len(wrapped_lines[j]) = max_chars_per_line
          /\ IsSpace(wrapped_lines[j][max_chars_per_line])

\* C19: render compacts JSON when content_type is "json", whatever the minify
\* flag, and then neither minifies nor raises the empty-after-minification
\* error; otherwise it minifies exactly when minify is true; with neither,
\* the text reaches word wrap unchanged.
C19_TransformationSelected ==
    pc = "render" /\ error # ErrEmptyText =>
        IF config.content_type = "json"
        THEN /\ error = NoError
             /\ compacted = compact_json(text)
             /\ wrapped_lines = _wrap_text(compact_json(text), max_chars_per_line)
        ELSE IF config.minify
        THEN /\ compacted = minify_text(text)
             /\ error = NoError =>
                   wrapped_lines = _wrap_text(minify_text(text), max_chars_per_line)
        ELSE /\ error = NoError
             /\ compacted = text
             /\ wrapped_lines = _wrap_text(text, max_chars_per_line)

\* a JSON engine with minify on rendered a text that minification would have
\* emptied
C19_Witness ==
    /\ pc = "render"
    /\ config.content_type = "json"
    /\ config.minify
    /\ error = NoError
    /\ minify_text(text) = <<>>
    /\ compacted = text

NamedStyles == {"concise", "extract", "structured"}

\* the prompt with "." added unless it ends in one of . ? ! :
WithPeriod(p) ==
    IF p # <<>> /\ p[Len(p)] \in {".", "?", "!", ":"} THEN p ELSE p \o <<".">>

\* C20 as stated: the prompt comes back unchanged exactly when it ends with
\* the style's suffix; otherwise it is followed by a period (unless it ends in
\* one of . ? ! :), one space and the suffix; style "none" changes nothing.
C20_AsClaimed ==
    pc = "optimize_prompt" =>
        /\ opt_style = "none" => optimized = opt_prompt
        /\ opt_style \in NamedStyles =>
              optimized = IF EndsWith(opt_prompt, SuffixFor(opt_style))
                          THEN opt_prompt
                          ELSE WithPeriod(opt_prompt) \o <<" ">>
                                 \o SuffixFor(opt_style)

\* C20: the prompt comes back unchanged exactly when it contains the style's
\* suffix; otherwise the result is the prompt without its trailing
\* whitespace, a period unless that ends in one of . ? ! :, one space and the
\* suffix; style "none" changes nothing.
C20_SuffixAppendedOnce ==
    pc = "optimize_prompt" =>
        /\ opt_style = "none" => optimized = opt_prompt
        /\ opt_style \in NamedStyles =>
              LET suffix == SuffixFor(opt_style)
                  body   == CHOOSE b \in {SubSeq(opt_prompt, 1, k) :
                                             k \in 0..Len(opt_prompt)} :
                               /\ b = <<>> \/ ~IsSpace(b[Len(b)])
                               /\ \A i \in (Len(b) + 1)..Len(opt_prompt) :
                                     IsSpace(opt_prompt[i])
              IN  /\ optimized = opt_prompt <=>
                        \E k \in 0..(Len(opt_prompt) - Len(suffix)) :
                            \A i \in 1..Len(suffix) : opt_prompt[k + i] = suffix[i]
                  /\ optimized # opt_prompt =>
                        optimized = WithPeriod(body) \o <<" ">> \o suffix

\* a prompt that holds the suffix before its end came back unchanged
C20_Witness ==
    /\ pc = "optimize_prompt"
    /\ opt_style = "extract"
    /\ Contains(opt_prompt, EXTRACT_SUFFIX)
    /\ ~EndsWith(opt_prompt, EXTRACT_SUFFIX)
    /\ optimized = opt_prompt

\* C21: compare(text, model) reports what render(text) returned: image_tokens
\* is the sum of the images' token costs, num_images their count and the
\* length of image_dimensions, which lists them in order; text_tokens is
\* max(1, floor(len(text) / 4)); a model name that holds no pricing key is
\* priced by the default entry.
C21_ReportMatchesRender ==
    pc = "compare" /\ error = NoError =>
        /\ images = render(text, config, char_width, line_height,
                           max_chars_per_line, max_lines_per_image).images
        /\ report.image_tokens = SumTokens(images, 1)
        /\ report.num_images = Len(images)
        /\ Len(report.image_dimensions) = Len(images)
        /\ \A i \in 1..Len(images) :
              /\ report.image_dimensions[i].width = images[i].width
              /\ report.image_dimensions[i].height = images[i].height
        /\ report.text_tokens = Max(1, Len(text) \div 4)
        /\ report.model = model
        /\ (\A i \in 1..Len(MODEL_PRICING) : ~Contains(model, MODEL_PRICING[i].key))
              => /\ report.text_cost_per_call = report.text_tokens * 5 * 100
                 /\ report.image_cost_per_call = report.image_tokens * 5 * 100

\* a nine-character text on several images was compared under a model name
\* that holds no pricing key
C21_Witness ==
    /\ pc = "compare"
    /\ error = NoError
    /\ Len(text) = 9
    /\ report.text_tokens = 2
    /\ report.num_images >= 2
    /\ model = <<"g", "p", "t">>

\* C22: in every state of a bound engine, also after render calls and after
\* a configuration field was written, the cached metrics are the values
\* derived from the current configuration.
C22_MetricsFollowConfig ==
    status = "ready" =>
        /\ font_size = config.font_size
        /\ line_height = char_height + config.line_spacing
        /\ max_chars_per_line =
               Max(1, (config.max_width - 2 * config.padding)
                          \div Max(1, char_width))
        /\ max_lines_per_image =
               Max(1, (config.max_height - 2 * config.padding)
                          \div Max(1, line_height))

\* the search so far: every path before font_index failed to open; a path
\* returned is the first that opens; the default is returned only when none
\* opens; nothing else comes out of the search
FontSearchOrdered ==
    /\ font \in {"trying", "default"} \cup {font_paths[i] : i \in 1..Len(font_paths)}
    /\ font_index \in 1..(Len(font_paths) + 1)
    /\ font = "trying" => \A j \in 1..(font_index - 1) : j \notin font_available
    /\ font \notin {"trying", "default"} =>
          /\ font_available # {}
          /\ \A j \in font_available : font_index <= j
          /\ font_index \in font_available
          /\ font = font_paths[font_index]
    /\ font = "default" => font_available = {}

\* C23: font resolution tries the paths in their fixed order, skips a path
\* that cannot be opened, returns the first path that opens and the default
\* font only when every path failed; it always ends with a font and never
\* with an error.
C23_FontResolution ==
    /\ []FontSearchOrdered
    /\ <>(font # "trying")
    /\ [][font # "trying" => font' = font]_vars

\* the first five paths failed and the sixth was returned
C23_Witness ==
    /\ font = font_paths[6]
    /\ font_index = 6
    /\ font_available = {6, 8}

\* what the call of caller t returns or raises when it runs alone
RenderAlone(t) ==
    render(calls[t].text, config, char_width, line_height,
           max_chars_per_line, max_lines_per_image)

\* C24: no step of a render call writes a field of the engine, and each of
\* the interleaved calls on one engine ends with the error, the image
\* dimensions and the token costs of the same call run alone.
C24_RenderIsolated ==
    /\ [](\A t \in Callers :
             /\ calls[t].stage = "done" =>
                   /\ RenderAlone(t).error = NoError
                   /\ calls[t].images = RenderAlone(t).images
             /\ calls[t].stage = "raised" =>
                   /\ calls[t].error = RenderAlone(t).error
                   /\ calls[t].images = <<>>)
    /\ [][UNCHANGED engineVars]_vars

\* two calls on different texts ran interleaved to their ends, one returned
\* two images and the other raised
C24_Witness ==
    /\ calls[1].stage = "done"
    /\ Len(calls[1].images) = 2
    /\ calls[2].stage = "raised"
    /\ calls[2].error = ErrEmptyAfterMinify

\* C25: after a successful render every page fits the maxima of the accepted
\* configuration: longest line * char_width + 2 * padding <= max_width and
\* line count * line_height + 2 * padding <= max_height.
C25_PagesFitImages ==
    pc = "render" /\ error = NoError =>
        \A i \in 1..Len(pages) :
            /\ LongestLine(pages[i]) * char_width + 2 * config.padding
                   <= config.max_width
            /\ Len(pages[i]) * line_height + 2 * config.padding
                   <= config.max_height

\* the number of lines of page i when L lines are cut into pages of n lines
PageLen(L, n, i) == IF i * n <= L THEN n ELSE L - (i - 1) * n

\* the lines of page i, taken from the wrapped lines
PageSlice(i) ==
    SubSeq(wrapped_lines, (i - 1) * max_lines_per_image + 1,
           (i - 1) * max_lines_per_image
               + PageLen(Len(wrapped_lines), max_lines_per_image, i))

\* the longest of a non-empty sequence of lines
Widest(lines) ==
    CHOOSE n \in {Len(lines[k]) : k \in 1..Len(lines)} :
        \A k \in 1..Len(lines) : Len(lines[k]) <= n

\* C26: a successful render returns max(1, ceil(L / max_lines_per_image))
\* images for L wrapped lines, one image when L <= max_lines_per_image and
\* more than one otherwise, and the i-th image has the dimensions that the
\* lines of the i-th page give.
C26_OneImagePerPage ==
    pc = "render" /\ error = NoError =>
        /\ Len(images) =
               IF Ceil(Len(wrapped_lines), max_lines_per_image) > 1
               THEN Ceil(Len(wrapped_lines), max_lines_per_image) ELSE 1
        /\ Len(wrapped_lines) <= max_lines_per_image <=> Len(images) = 1
        /\ \A i \in 1..Len(images) :
              /\ images[i].width =
                     IF config.dynamic_width
                     THEN Clamp(Widest(PageSlice(i)) * char_width
                                    + 2 * config.padding, 50, config.max_width)
                     ELSE config.max_width
              /\ images[i].height =
                     IF config.dynamic_height
                     THEN Clamp(Len(PageSlice(i)) * line_height
                                    + 2 * config.padding, 20, config.max_height)
                     ELSE config.max_height

\* five lines were rendered one line per page with dynamic sizing
C26_Witness ==
    /\ pc = "render"
    /\ error = NoError
    /\ Len(wrapped_lines) = 5
    /\ max_lines_per_image = 1
    /\ Len(images) = 5
    /\ config.dynamic_width
    /\ config.dynamic_height

\* the word, or word fragment, that starts a physical line
FirstWord(line) == Split(line, " ")[1]

\* C27: when _wrap_text wraps one logical line longer than the limit, every
\* physical line but the last is full in the greedy sense, that is a space
\* and the word that starts the next physical line would not fit after it,
\* and a single word longer than the limit is cut into chunks of exactly
\* max_chars_per_line characters up to the final remainder.
C27_GreedyPacking ==
    /\ pc = "_wrap_text"
    /\ \A i \in 1..Len(text) : text[i] # "\n"
    /\ Len(text) > max_chars_per_line
    => /\ \A k \in 1..(Len(wrapped_lines) - 1) :
             Len(wrapped_lines[k]) + 1 + Len(FirstWord(wrapped_lines[k + 1]))
                 > max_chars_per_line
       /\ (\A i \in 1..Len(text) : text[i] # " ") =>
             \A k \in 1..(Len(wrapped_lines) - 1) :
                 Len(wrapped_lines[k]) = max_chars_per_line

\* C28: on an engine built from a validated configuration both limits are at
\* least 1, every iteration of the hard-split loop shortens the word, every
\* iteration of the pagination loop advances its index, and the call ends.
C28_LoopsTerminate ==
    /\ [](max_chars_per_line >= 1 /\ max_lines_per_image >= 1)
    /\ [][pc = "_wrap_text" /\ pc' = "_wrap_text" =>
              Len(split_word') < Len(split_word)]_vars
    /\ [][pc = "_paginate" /\ pc' = "_paginate" =>
              page_start' > page_start]_vars
    /\ <>(pc = "done")

\* a word of seven characters was split and paginated on an engine whose
\* padding leaves no room: one character per line, one line per page
C28_Witness ==
    /\ pc = "done"
    /\ 2 * config.padding > config.max_width
    /\ 2 * config.padding > config.max_height
    /\ max_chars_per_line = 1
    /\ max_lines_per_image = 1
    /\ Len(text) = 7
    /\ Len(split_chunks) = 6
    /\ Len(pages) = 7
    /\ pages = _paginate(_wrap_text(text, max_chars_per_line),
                         max_lines_per_image)

\* the estimate of no sample image that is at most as wide and at most as
\* high as the estimated one exceeds the estimate
NoSmallerCostsMore ==
    \A w1, h1 \in DimSamples :
        w1 <= est_width /\ h1 <= est_height =>
            estimate_image_tokens(w1, h1) <= est_tokens

\* C29 as stated: estimate_image_tokens is monotone in both arguments,
\* across the 1568-pixel scaling threshold included.
C29_AsClaimed ==
    pc = "estimate_image_tokens" => NoSmallerCostsMore

\* C29 amended: estimate_image_tokens is monotone in both arguments as long
\* as the larger image is not scaled down, that is its longest side is at
\* most 1568 pixels.
C29_MonotoneBelowThreshold ==
    /\ pc = "estimate_image_tokens"
    /\ Max(est_width, est_height) <= MAX_VISION_DIMENSION
    => NoSmallerCostsMore

\* the largest image that is not scaled down was estimated
C29_Witness ==
    /\ pc = "estimate_image_tokens"
    /\ est_width = MAX_VISION_DIMENSION
    /\ est_height = MAX_VISION_DIMENSION
    /\ est_tokens = 3278

IsInk(c) == ~IsSpace(c)
\* the non-whitespace characters of a string, in order
NonWs(s) == SelectSeq(s, IsInk)

====
